---------------------------- MODULE Spec2Model ----------------------------
(***************************************************************************)
(* Liquidity Matrix Bot (short setup only), src/bot.py.                    *)
(*                                                                         *)
(* Prices are Python floats in the program.  Here a price is an integer    *)
(* number of units of 1/Scale (0.0005), fine enough to hold every value    *)
(* the plan builders compute from 3-decimal quotes without loss: a quote   *)
(* "10.025" is the raw integer 10025 (thousandths) and parses to 20050.    *)
(***************************************************************************)
EXTENDS Integers, Sequences, FiniteSets, TLC

VARIABLES
    call,   \* the last engine call made: its function, arguments and outcome
    pc,     \* position of the scheduler job being run
    job,    \* which job runs: "pre" (job_pre_alert) or "post" (job_post_open)
    x,      \* the job's local x: outcome of get_and_analyze(SYMBOL_XAU)
    b,      \* the job's local b: outcome of get_and_analyze(SYMBOL_BTC)
    exc,    \* the exception caught by the job's except clause, or "none"
    sent    \* the Telegram sends attempted by the running job, in order

vars == <<call, pc, job, x, b, exc, sent>>

----------------------------------------------------------------------------
(* Configuration, src/bot.py lines 24-33.                                  *)

Scale == 2000

SYMBOL_XAU == "XAU/USD"
SYMBOL_BTC == "BTC/USD"

XAU_SL_PIPS == 20
BTC_SL_USD == 350
RR == 4

\* get_and_analyze calls the detector with lookback=6 (also the default).
LOOKBACK == 6
\* get_and_analyze summarises candles_15m[-96:].
LIQUIDITY_WINDOW == 96

----------------------------------------------------------------------------
(* Bounds of the model.                                                    *)

\* Longest freely chosen tail of a series handed to the detector.
MaxTail == 4
\* Longest freely chosen tail of a series fetched by get_and_analyze.
MaxAnalyzeTail == 3
\* Longest freely chosen tail of a series fetched inside a scheduler job.
MaxJobTail == 2
\* Lookbacks 1..MaxLookback are tried besides the default one.
MaxLookback == 3

----------------------------------------------------------------------------
(* Python list helpers.                                                    *)

\* s[-n:] for n > 0
LastN(s, n) == IF Len(s) <= n THEN s ELSE SubSeq(s, Len(s) - n + 1, Len(s))

\* list(reversed(s))
Reversed(s) == [i \in 1..Len(s) |-> s[Len(s) + 1 - i]]

Min2(a, c) == IF a <= c THEN a ELSE c
Max2(a, c) == IF a >= c THEN a ELSE c

\* min(...) / max(...) over a non-empty list of numbers
MinOf(s) == CHOOSE m \in {s[i] : i \in 1..Len(s)} : \A i \in 1..Len(s) : m <= s[i]
MaxOf(s) == CHOOSE m \in {s[i] : i \in 1..Len(s)} : \A i \in 1..Len(s) : m >= s[i]

\* round(v, ndigits) on a price: to the nearest multiple of step units.  A
\* decimal tie is in general not a binary double, so the side a tie falls
\* on depends on the double's representation: `up` is that side.
RoundTo(v, step, up) ==
    LET r  == v % step
        lo == v - r
    IN  IF 2 * r < step THEN lo
        ELSE IF 2 * r > step THEN lo + step
        ELSE IF up THEN lo + step ELSE lo

Step3 == Scale \div 1000    \* round(v, 3)
Step2 == Scale \div 100     \* round(v, 2)

----------------------------------------------------------------------------
(* Raw rows of a TwelveData response and parse_candles (lines 73-84).      *)

RawRow(o, h, l, c) == [open |-> o, high |-> h, low |-> l, close |-> c]

Q  == RawRow(10000, 10000, 10000, 10000) \* quiet, zero range
R  == RawRow( 9985,  9990,  9960,  9975) \* red, low high, wick 5/30
S  == RawRow(10010, 10050, 10000, 10011) \* wick 39/50, not red
S2 == RawRow(10010, 10040, 10000, 10001) \* wick 30/40, red
E  == RawRow(10030, 10050, 10000, 10020) \* wick 20/50 = 0.40 exactly, red
IZ == RawRow(10030, 10070, 10070, 10020) \* malformed: high = low above the body
BR == RawRow(11000,  9990,  9960, 10900) \* malformed: red body above the high
\* a row without its "open" field
BadRow == [high |-> 10000, low |-> 10000, close |-> 10000]

ValidRows == {Q, R, S, S2, E}
RawCandles == ValidRows \cup {IZ, BR}

\* float(c["open"]) ... : a 3-decimal quote as a price
ToFloat(m) == m * (Scale \div 1000)

ParseRow(c) ==
    [open |-> ToFloat(c.open), high |-> ToFloat(c.high),
     low |-> ToFloat(c.low), close |-> ToFloat(c.close)]

\* c["open"] raises KeyError on a row without the field
Parseable(raw) == \A i \in 1..Len(raw) : "open" \in DOMAIN raw[i]

parse_candles(raw_candles) == [i \in 1..Len(raw_candles) |-> ParseRow(raw_candles[i])]

\* The candle invariant of the data model: low <= min(open, close) <=
\* max(open, close) <= high.
ValidCandle(c) ==
    /\ c.low <= Min2(c.open, c.close)
    /\ Max2(c.open, c.close) <= c.high

AllValid(candles) == \A i \in 1..Len(candles) : ValidCandle(candles[i])

----------------------------------------------------------------------------
(* detect_sweep_and_red (lines 88-116).  i is the loop's 0-based index     *)
(* into window; window[i] of the program is window[i + 1] here.            *)

\* lines 102-108 for one i: both neighbours' highs are lower, the upper wick
\* is more than 0.4 of the range (1e-6 when high - low is not positive), and
\* the next candle closes below its open.
SweepAt(window, i) ==
    LET cur  == window[i + 1]
        prev == window[i]
        next == window[i + 2]
        upper_wick == cur.high - Max2(cur.open, cur.close)
        \* range_ as a fraction n/d of a unit: 1e-6 is Scale/1000000 units
        range_ == IF cur.high - cur.low > 0
                  THEN [n |-> cur.high - cur.low, d |-> 1]
                  ELSE [n |-> Scale, d |-> 1000000]
    IN  /\ cur.high > prev.high
        /\ cur.high > next.high
        /\ 10 * upper_wick * range_.d > 4 * range_.n
        /\ next.close < next.open

\* the for loop of lines 101-116 from index i on
RECURSIVE ScanFrom(_, _)
ScanFrom(window, i) ==
    IF i >= Len(window) - 1
    THEN [signal |-> FALSE, reason |-> "no_sweep_found"]
    ELSE IF SweepAt(window, i)
         THEN [signal |-> TRUE,
               sweep_candle |-> window[i + 1],
               confirm_candle |-> window[i + 2],
               sweep_index_from_end |-> Len(window) - (i + 1)]
         ELSE ScanFrom(window, i + 1)

\* slip: the length test lets a series of lookback + 1 candles through
detect_short_guard(candles_15m, lookback) ==
    IF Len(candles_15m) < lookback + 1
    THEN [signal |-> FALSE, reason |-> "not_enough_data"]
    ELSE ScanFrom(LastN(candles_15m, lookback + 1), 1)

\* slip: the scan starts at range(2, ...) and skips the first interior candle
detect_late_start(candles_15m, lookback) ==
    IF Len(candles_15m) < lookback + 2
    THEN [signal |-> FALSE, reason |-> "not_enough_data"]
    ELSE ScanFrom(LastN(candles_15m, lookback + 1), 2)

detect_sweep_and_red(candles_15m, lookback) ==
    IF Len(candles_15m) < lookback + 2
    THEN [signal |-> FALSE, reason |-> "not_enough_data"]
    ELSE ScanFrom(LastN(candles_15m, lookback + 1), 1)

----------------------------------------------------------------------------
(* compute_liquidity_zones (lines 119-126).  An outcome is either          *)
(* [kind |-> "return", value |-> ...] or [kind |-> "raise", exc |-> ...].   *)

Return(v) == [kind |-> "return", value |-> v]
Raise(e) == [kind |-> "raise", exc |-> e]

\* slip: candles[0] for candles[-1]
zones_first_close(candles) ==
    IF Len(candles) = 0
    THEN Raise("ValueError")
    ELSE Return([recent_low  |-> MinOf([i \in 1..Len(candles) |-> candles[i].low]),
                 recent_high |-> MaxOf([i \in 1..Len(candles) |-> candles[i].high]),
                 last_close  |-> candles[1].close])

compute_liquidity_zones(candles) ==
    IF Len(candles) = 0
    THEN Raise("ValueError")     \* min() arg is an empty sequence
    ELSE Return([recent_low  |-> MinOf([i \in 1..Len(candles) |-> candles[i].low]),
                 recent_high |-> MaxOf([i \in 1..Len(candles) |-> candles[i].high]),
                 last_close  |-> candles[Len(candles)].close])

----------------------------------------------------------------------------
(* Trade plan builders (lines 130-174).  tie gives, per rounded field, the *)
(* side a rounding tie falls on.                                           *)

Ties == [entry : BOOLEAN, sl : BOOLEAN, tp : BOOLEAN, tp1 : BOOLEAN]

\* slip: the target is put above the entry (the long formula)
xau_plan_tp_above(latest_15m, latest_5m, detection, tie) ==
    LET sweep_high == detection.sweep_candle.high
        confirm == detection.confirm_candle
        pip_value == Scale \div 100
        sl_price == sweep_high + XAU_SL_PIPS * pip_value
        entry == Min2(confirm.open - 2 * (Scale \div 100),
                      (confirm.close + sweep_high) \div 2)
        rr_distance == sl_price - entry
        tp == entry + rr_distance * RR
        tp1 == entry - rr_distance
    IN  [side |-> "SHORT",
         entry |-> RoundTo(entry, Step3, tie.entry),
         sl |-> RoundTo(sl_price, Step3, tie.sl),
         tp |-> RoundTo(tp, Step3, tie.tp),
         tp1 |-> RoundTo(tp1, Step3, tie.tp1),
         confidence |-> 85,
         logic |-> "Sweep up + red confirm on 15m"]

build_xau_short_plan(latest_15m, latest_5m, detection, tie) ==
    LET sweep_high == detection.sweep_candle.high
        confirm == detection.confirm_candle
        pip_value == Scale \div 100
        sl_price == sweep_high + XAU_SL_PIPS * pip_value
        entry == Min2(confirm.open - 2 * (Scale \div 100),
                      (confirm.close + sweep_high) \div 2)
        rr_distance == sl_price - entry
        tp == entry - rr_distance * RR
        tp1 == entry - rr_distance
    IN  [side |-> "SHORT",
         entry |-> RoundTo(entry, Step3, tie.entry),
         sl |-> RoundTo(sl_price, Step3, tie.sl),
         tp |-> RoundTo(tp, Step3, tie.tp),
         tp1 |-> RoundTo(tp1, Step3, tie.tp1),
         confidence |-> 85,
         logic |-> "Sweep up + red confirm on 15m"]

\* slip: the entry is taken from the latest 5-minute candle
btc_plan_from_5m(latest_15m, latest_5m, detection, tie) ==
    LET sweep_high == detection.sweep_candle.high
        sl_price == sweep_high + BTC_SL_USD * Scale
        entry == Min2(latest_5m.open - Scale,
                      (latest_5m.close + sweep_high) \div 2)
        rr_distance == sl_price - entry
        tp == entry - rr_distance * RR
        tp1 == entry - rr_distance
    IN  [side |-> "SHORT",
         entry |-> RoundTo(entry, Step2, tie.entry),
         sl |-> RoundTo(sl_price, Step2, tie.sl),
         tp |-> RoundTo(tp, Step2, tie.tp),
         tp1 |-> RoundTo(tp1, Step2, tie.tp1),
         confidence |-> 75,
         logic |-> "Sweep up + red confirm on 15m"]

build_btc_short_plan(latest_15m, latest_5m, detection, tie) ==
    LET sweep_high == detection.sweep_candle.high
        confirm == detection.confirm_candle
        sl_price == sweep_high + BTC_SL_USD * Scale
        entry == Min2(confirm.open - Scale,
                      (confirm.close + sweep_high) \div 2)
        rr_distance == sl_price - entry
        tp == entry - rr_distance * RR
        tp1 == entry - rr_distance
    IN  [side |-> "SHORT",
         entry |-> RoundTo(entry, Step2, tie.entry),
         sl |-> RoundTo(sl_price, Step2, tie.sl),
         tp |-> RoundTo(tp, Step2, tie.tp),
         tp1 |-> RoundTo(tp1, Step2, tie.tp1),
         confidence |-> 75,
         logic |-> "Sweep up + red confirm on 15m"]

----------------------------------------------------------------------------
(* twelvedata_get_series (lines 54-70).  A response is what the HTTP call  *)
(* yields: status "ok" with the rows newest first, or a failure.           *)

twelvedata_get_series(resp) ==
    IF resp.status = "http_error" THEN Raise("HTTPError")          \* line 66
    ELSE IF resp.status = "no_values" THEN Raise("RuntimeError")   \* line 69
    ELSE Return(Reversed(resp.values))

----------------------------------------------------------------------------
(* get_and_analyze (lines 178-204).                                        *)

\* "XAU" in symbol
IsXau(symbol) == symbol = SYMBOL_XAU

build_plan(symbol, latest_15m, latest_5m, detection, tie) ==
    IF IsXau(symbol)
    THEN build_xau_short_plan(latest_15m, latest_5m, detection, tie)
    ELSE build_btc_short_plan(latest_15m, latest_5m, detection, tie)

get_and_analyze(symbol, resp15, resp5, tie) ==
    LET raw_15m == twelvedata_get_series(resp15)
        raw_5m  == twelvedata_get_series(resp5)
    IN
    IF raw_15m.kind = "raise" \/ raw_5m.kind = "raise"
    THEN Return([error |-> "data_fetch_error"])
    ELSE IF ~Parseable(raw_15m.value) \/ ~Parseable(raw_5m.value)
    THEN Raise("KeyError")
    ELSE
    LET candles_15m == parse_candles(raw_15m.value)
        candles_5m  == parse_candles(raw_5m.value)
        detection   == detect_sweep_and_red(candles_15m, LOOKBACK)
        liquidity   == compute_liquidity_zones(LastN(candles_15m, LIQUIDITY_WINDOW))
    IN
    IF liquidity.kind = "raise" THEN liquidity
    ELSE IF Len(candles_5m) = 0 THEN Raise("IndexError")   \* candles_5m[-1]
    ELSE
    LET latest_15m == candles_15m[Len(candles_15m)]
        latest_5m  == candles_5m[Len(candles_5m)]
        result == [symbol |-> symbol,
                   detection |-> detection,
                   liquidity |-> liquidity.value,
                   latest_15m |-> latest_15m,
                   latest_5m |-> latest_5m]
    IN  Return(IF detection.signal
               THEN result @@ [plan |-> build_plan(symbol, latest_15m, latest_5m,
                                                   detection, tie)]
               ELSE result)

----------------------------------------------------------------------------
(* format_plan_message (lines 207-228): the message by its kind and the    *)
(* values it prints.                                                       *)

format_plan_message(analysis) ==
    IF "error" \in DOMAIN analysis
    THEN [type |-> "fetch_error", error |-> analysis.error]
    ELSE IF "plan" \notin DOMAIN analysis
    THEN [type |-> "no_setup", symbol |-> analysis.symbol,
          liquidity |-> analysis.liquidity]
    ELSE [type |-> "plan", symbol |-> analysis.symbol, plan |-> analysis.plan,
          liquidity |-> analysis.liquidity,
          latest_close |-> analysis.latest_15m.close]

----------------------------------------------------------------------------
(* The inputs tried.                                                       *)

Symbols == {SYMBOL_XAU, SYMBOL_BTC}

Lookbacks == (1..MaxLookback) \cup {LOOKBACK}

\* n quiet candles of earlier history
Pad(n) == [i \in 1..n |-> Q]

Pads == 0..(LOOKBACK - 2)

Tails(rows, n) == UNION {[1..k -> rows] : k \in 0..n}

\* raw series, oldest first: quiet history, then any tail of up to n rows
Family(rows, n, pads) == {Pad(p) \o t : p \in pads, t \in Tails(rows, n)}

DetectSeries == {parse_candles(s) : s \in Family(RawCandles, MaxTail, Pads)}

Responses(rows, n, pads) ==
    {[status |-> "ok", values |-> Reversed(s)] : s \in Family(rows, n, pads)}
        \cup {[status |-> "http_error"], [status |-> "no_values"]}

\* the series the plan builders are tried on, with the lookback used, where
\* the detector signals
BuildSeries == {parse_candles(s) : s \in Family(RawCandles, MaxAnalyzeTail, Pads)}
SignalCases ==
    {c \in [candles : BuildSeries, lookback : Lookbacks] :
        detect_sweep_and_red(c.candles, c.lookback).signal}

\* the 5-minute responses: failing, empty, one row
Responses5 == Responses({Q, S, BadRow}, 1, {0}) \ {[status |-> "no_values"]}

\* 15-minute responses: too short for the default lookback, or long enough
AnalyzeRows == {Q, R, S, S2, BR, BadRow}
AnalyzeResponses15 == Responses(AnalyzeRows, MaxAnalyzeTail, {0, LOOKBACK})

JobRows == {Q, S, R, BadRow}
JobResponses15 == Responses(JobRows, MaxJobTail, {0, LOOKBACK})
JobResponses5 == Responses({Q, BadRow}, 1, {0})

----------------------------------------------------------------------------
(* Engine calls: each action is one call of an engine function on one      *)
(* input, recorded with its outcome.  The functions keep no state between  *)
(* calls, so a behaviour makes one call.                                   *)

NoCall == [fn |-> "none"]
Unbound == [unbound |-> TRUE]

CallDetect ==
    /\ call = NoCall
    /\ \E s \in DetectSeries, lb \in Lookbacks :
          call' = [fn |-> "detect_sweep_and_red", candles |-> s, lookback |-> lb,
                   ret |-> detect_sweep_and_red(s, lb)]
    /\ UNCHANGED <<pc, job, x, b, exc, sent>>

CallZones ==
    /\ call = NoCall
    /\ \E s \in DetectSeries :
          call' = [fn |-> "compute_liquidity_zones", candles |-> s,
                   ret |-> compute_liquidity_zones(s)]
    /\ UNCHANGED <<pc, job, x, b, exc, sent>>

\* a plan builder called, as get_and_analyze does, on a Signal of the detector
CallBuild ==
    /\ call = NoCall
    /\ \E sym \in Symbols, c \in SignalCases, tie \in Ties :
          LET s == c.candles
              detection == detect_sweep_and_red(s, c.lookback)
          IN  call' = [fn |-> "build_short_plan", symbol |-> sym, candles |-> s,
                       lookback |-> c.lookback, detection |-> detection,
                       ret |-> build_plan(sym, s[Len(s)], ParseRow(Q), detection, tie)]
    /\ UNCHANGED <<pc, job, x, b, exc, sent>>

CallAnalyze ==
    /\ call = NoCall
    /\ \E sym \in Symbols, r15 \in AnalyzeResponses15, r5 \in Responses5, tie \in Ties :
          call' = [fn |-> "get_and_analyze", symbol |-> sym,
                   resp15 |-> r15, resp5 |-> r5,
                   ret |-> get_and_analyze(sym, r15, r5, tie)]
    /\ UNCHANGED <<pc, job, x, b, exc, sent>>

----------------------------------------------------------------------------
(* send_telegram_message (lines 37-51): the send is attempted; a failure   *)
(* of the HTTP call is caught and printed, and the function returns.       *)

send_telegram_message(log, text, delivered) ==
    Append(log, [msg |-> text, delivered |-> delivered])

----------------------------------------------------------------------------
(* job_pre_alert (lines 232-242) and job_post_open (lines 245-255), one    *)
(* step per network call.                                                  *)

Jobs == {"pre", "post"}

\* lines 233-235 / 246-248: the header message
JobStart ==
    /\ pc = "idle"
    /\ \E j \in Jobs, delivered \in BOOLEAN :
          /\ job' = j
          /\ sent' = send_telegram_message(<<>>, [type |-> "header", job |-> j], delivered)
    /\ pc' = "analyze_x"
    /\ UNCHANGED <<call, x, b, exc>>

\* x = get_and_analyze(SYMBOL_XAU)
AnalyzeX ==
    /\ pc = "analyze_x"
    /\ \E r15 \in JobResponses15, r5 \in JobResponses5, tie \in Ties :
          LET r == get_and_analyze(SYMBOL_XAU, r15, r5, tie) IN
          IF r.kind = "raise"
          THEN /\ exc' = r.exc
               /\ pc' = "except"
               /\ x' = x
          ELSE /\ x' = r.value
               /\ pc' = "analyze_b"
               /\ exc' = exc
    /\ UNCHANGED <<call, job, b, sent>>

\* b = get_and_analyze(SYMBOL_BTC)
AnalyzeB ==
    /\ pc = "analyze_b"
    /\ \E r15 \in JobResponses15, r5 \in JobResponses5, tie \in Ties :
          LET r == get_and_analyze(SYMBOL_BTC, r15, r5, tie) IN
          IF r.kind = "raise"
          THEN /\ exc' = r.exc
               /\ pc' = "except"
               /\ b' = b
          ELSE /\ b' = r.value
               /\ pc' = "send_x"
               /\ exc' = exc
    /\ UNCHANGED <<call, job, x, sent>>

\* slip: send_telegram_message without its try/except, so that a failed
\* send raises into the job's except clause
SendX_unguarded ==
    /\ pc = "send_x"
    /\ \E delivered \in BOOLEAN :
          /\ sent' = send_telegram_message(sent, format_plan_message(x), delivered)
          /\ IF delivered
             THEN pc' = "send_b" /\ exc' = exc
             ELSE pc' = "except" /\ exc' = "HTTPError"
    /\ UNCHANGED <<call, job, x, b>>

\* send_telegram_message(format_plan_message(x))
SendX ==
    /\ pc = "send_x"
    /\ \E delivered \in BOOLEAN :
          sent' = send_telegram_message(sent, format_plan_message(x), delivered)
    /\ pc' = "send_b"
    /\ UNCHANGED <<call, job, x, b, exc>>

\* send_telegram_message(format_plan_message(b))
SendB ==
    /\ pc = "send_b"
    /\ \E delivered \in BOOLEAN :
          sent' = send_telegram_message(sent, format_plan_message(b), delivered)
    /\ pc' = "done"
    /\ UNCHANGED <<call, job, x, b, exc>>

\* except Exception as e: send_telegram_message(f"Pre-alert error: {e}")
SendError ==
    /\ pc = "except"
    /\ \E delivered \in BOOLEAN :
          sent' = send_telegram_message(sent,
                      [type |-> "job_error", job |-> job, error |-> exc], delivered)
    /\ pc' = "done"
    /\ UNCHANGED <<call, job, x, b, exc>>

\* the job returns; its locals are gone, the scheduler waits for the next run
JobReturn ==
    /\ pc = "done"
    /\ pc' = "idle"
    /\ x' = Unbound
    /\ b' = Unbound
    /\ exc' = "none"
    /\ UNCHANGED <<call, job, sent>>

----------------------------------------------------------------------------
Init ==
    /\ call = NoCall
    /\ pc = "idle"
    /\ job = "none"
    /\ x = Unbound
    /\ b = Unbound
    /\ exc = "none"
    /\ sent = <<>>

\* the engine functions, called on their own
Next == CallDetect \/ CallZones \/ CallBuild \/ CallAnalyze

Spec == Init /\ [][Next]_vars

\* the scheduler running its two jobs, one at a time
NextJob == JobStart \/ AnalyzeX \/ AnalyzeB \/ SendX \/ SendB \/ SendError \/ JobReturn

SpecJob == Init /\ [][NextJob]_vars

----------------------------------------------------------------------------
(* Properties.                                                             *)

IsDetect == call.fn = "detect_sweep_and_red"
IsZones == call.fn = "compute_liquidity_zones"
IsBuild == call.fn = "build_short_plan"
IsAnalyze == call.fn = "get_and_analyze"

\* the 15-minute candles a get_and_analyze call worked on
Fetched15 == parse_candles(Reversed(call.resp15.values))

\* a get_and_analyze call whose two fetches succeeded and whose rows parse
AnalyzedCandles ==
    /\ IsAnalyze
    /\ call.resp15.status = "ok"
    /\ call.resp5.status = "ok"
    /\ Parseable(call.resp15.values)
    /\ Parseable(call.resp5.values)

\* a get_and_analyze call that returned a result object with a plan
AnalyzeGavePlan ==
    /\ IsAnalyze
    /\ call.ret.kind = "return"
    /\ "plan" \in DOMAIN call.ret.value

ShortOrdered(plan) == plan.tp < plan.entry /\ plan.entry < plan.sl

\* C1: every short plan built from a Signal of the detector on a series of
\* well-formed candles has takeProfit < entry < stopLoss, whether the builder
\* is called on its own or by get_and_analyze.
C1_ShortPlanOrdered ==
    /\ (IsBuild /\ AllValid(call.candles)) => ShortOrdered(call.ret)
    /\ (AnalyzeGavePlan /\ AllValid(Fetched15)) => ShortOrdered(call.ret.value.plan)

\* a BTC plan built from a well-formed series whose entry is the
\* (close + sweep high) / 2 branch
C1_Witness ==
    /\ IsBuild
    /\ AllValid(call.candles)
    /\ call.symbol = SYMBOL_BTC
    /\ call.detection.sweep_candle = ParseRow(S)
    /\ call.detection.confirm_candle = ParseRow(S2)

\* C2: on a series of fewer than lookback + 2 candles (the empty one too)
\* the detector returns no signal with reason "not_enough_data".
C2_NotEnoughData ==
    (IsDetect /\ Len(call.candles) < call.lookback + 2)
        => call.ret = [signal |-> FALSE, reason |-> "not_enough_data"]

\* a series of lookback + 1 candles holding a sweep and its red confirmation
C2_Witness ==
    /\ IsDetect
    /\ call.lookback = LOOKBACK
    /\ Len(call.candles) = call.lookback + 1
    /\ \E i \in 1..(Len(call.candles) - 2) : SweepAt(call.candles, i)
    /\ call.ret.reason = "not_enough_data"


\* The bearish sweep conditions as the design states them, for the candle at
\* 0-based index i of window: a higher high than both neighbours, an upper
\* wick fraction (high - max(open, close)) / (high - low) above 0.40, and a
\* red next candle.  A zero range has no fraction and does not qualify.
BearishSweep(window, i) ==
    LET cur == window[i + 1]
        wick == cur.high - Max2(cur.open, cur.close)
        rng == cur.high - cur.low
    IN  /\ cur.high > window[i].high
        /\ cur.high > window[i + 2].high
        /\ rng # 0
        /\ IF rng > 0 THEN 10 * wick > 4 * rng ELSE 10 * wick < 4 * rng
        /\ window[i + 2].close < window[i + 2].open

\* the window of a detector call and its interior indices (0-based)
Window == LastN(call.candles, call.lookback + 1)
Interior == 1..(Len(Window) - 2)
Scanned == IsDetect /\ Len(call.candles) >= call.lookback + 2

\* C3: a Signal's sweep candle is the lowest-index interior candle of the
\* window that meets the bearish sweep conditions, and its confirm candle is
\* the next one.
C3_FirstQualifying ==
    (IsDetect /\ call.ret.signal) =>
        LET i == Len(Window) - call.ret.sweep_index_from_end - 1 IN
        /\ i \in Interior
        /\ BearishSweep(Window, i)
        /\ \A j \in 1..(i - 1) : ~BearishSweep(Window, j)
        /\ call.ret.sweep_candle = Window[i + 1]
        /\ call.ret.confirm_candle = Window[i + 2]

\* C3 on series of well-formed candles only (where the malformed candles of
\* C9 are left out, the first-match statement holds).
C3_OnWellFormed ==
    (IsDetect /\ call.ret.signal /\ AllValid(call.candles)) =>
        LET i == Len(Window) - call.ret.sweep_index_from_end - 1 IN
        /\ i \in Interior
        /\ BearishSweep(Window, i)
        /\ \A j \in 1..(i - 1) : ~BearishSweep(Window, j)
        /\ call.ret.sweep_candle = Window[i + 1]
        /\ call.ret.confirm_candle = Window[i + 2]

C5_ZeroRangeSkipped ==
    (IsDetect /\ call.ret.signal) =>
        call.ret.sweep_candle.high # call.ret.sweep_candle.low

\* C5 on series of well-formed candles only.
C5_OnWellFormed ==
    (IsDetect /\ call.ret.signal /\ AllValid(call.candles)) =>
        call.ret.sweep_candle.high # call.ret.sweep_candle.low

\* a well-formed zero-range candle with the highest high among its
\* neighbours, followed by a red candle, and not returned
C5_WellFormedWitness ==
    /\ Scanned
    /\ AllValid(call.candles)
    /\ \E i \in Interior :
          /\ Window[i + 1].high = Window[i + 1].low
          /\ Window[i + 1].high > Window[i].high
          /\ Window[i + 1].high > Window[i + 2].high
          /\ Window[i + 2].close < Window[i + 2].open
    /\ ~call.ret.signal


\* a state in which two interior candles of the window pass and the first
\* one is the Signal's sweep candle
C3_TwoCandidates ==
    /\ Scanned
    /\ call.ret.signal
    /\ \E i, j \in Interior :
          /\ i < j
          /\ SweepAt(Window, i)
          /\ SweepAt(Window, j)
          /\ Window[i + 1] # Window[j + 1]
          /\ call.ret.sweep_candle = Window[i + 1]

ParsedCandles == {ParseRow(r) : r \in RawCandles}

\* C6: a result object of get_and_analyze holds a plan exactly when the
\* detector signalled on the fetched 15-minute series; the plan is the short
\* builder's, whatever the latest 5-minute candle is; an error object holds
\* no plan.
C6_PlanIffSignal ==
    (IsAnalyze /\ call.ret.kind = "return") =>
        LET v == call.ret.value IN
        IF "error" \in DOMAIN v
        THEN "plan" \notin DOMAIN v
        ELSE /\ v.detection = detect_sweep_and_red(Fetched15, LOOKBACK)
             /\ "plan" \in DOMAIN v <=> v.detection.signal
             /\ "plan" \in DOMAIN v =>
                   \A c5 \in ParsedCandles :
                       \E tie \in Ties :
                           v.plan = build_plan(call.symbol, v.latest_15m, c5,
                                               v.detection, tie)

\* a BTC result with a plan where the latest 5-minute candle is not quiet
C6_Witness ==
    /\ AnalyzeGavePlan
    /\ call.symbol = SYMBOL_BTC
    /\ call.ret.value.latest_5m = ParseRow(S)
    /\ call.ret.value.detection.signal

\* The minimum series length the design gives the orchestrator.
MinCandles == 20

\* C7: get_and_analyze, once both series are fetched, fails when either has
\* fewer than MinCandles candles and never returns a result object for such
\* input.  (Any raised error counts as failing here, so that what refutes
\* this is a returned result and not the name of an error.)
C7_InsufficientData ==
    (/\ IsAnalyze
     /\ call.resp15.status = "ok"
     /\ call.resp5.status = "ok"
     /\ \/ Len(call.resp15.values) < MinCandles
        \/ Len(call.resp5.values) < MinCandles)
        => call.ret.kind = "raise"

\* the summary the design asks of a non-empty series
IsSummaryOf(z, candles) ==
    /\ \E i \in 1..Len(candles) : z.recent_low = candles[i].low
    /\ \A i \in 1..Len(candles) : z.recent_low <= candles[i].low
    /\ \E i \in 1..Len(candles) : z.recent_high = candles[i].high
    /\ \A i \in 1..Len(candles) : z.recent_high >= candles[i].high
    /\ z.last_close = candles[Len(candles)].close

\* C8 as claimed: the summarizer fails with EmptyInputError on the empty
\* series and returns min low, max high and the final close otherwise.
C8_EmptyInputError ==
    IsZones =>
        IF Len(call.candles) = 0
        THEN call.ret = Raise("EmptyInputError")
        ELSE call.ret.kind = "return" /\ IsSummaryOf(call.ret.value, call.candles)

\* C8 as amended: the summarizer fails on the empty series with ValueError
\* (Python's, from min() of an empty list) and returns no snapshot; otherwise
\* it returns min low, max high and the final close.
C8_ValueError ==
    IsZones =>
        IF Len(call.candles) = 0
        THEN call.ret = Raise("ValueError")
        ELSE call.ret.kind = "return" /\ IsSummaryOf(call.ret.value, call.candles)

\* the empty series is summarised and the call raises
C8_Witness ==
    /\ IsZones
    /\ Len(call.candles) = 0
    /\ call.ret.kind = "raise"

\* a series whose first and last closes differ is summarised
C8_NonEmptyWitness ==
    /\ IsZones
    /\ Len(call.candles) >= 2
    /\ call.candles[1].close # call.candles[Len(call.candles)].close
    /\ call.ret.kind = "return"

\* C9: a series holding a candle that breaks the candle invariant is
\* rejected with InvalidCandleError: the detector gives no Signal on it, no
\* plan is built from it, and get_and_analyze fails on it.
C9_RejectsMalformed ==
    /\ (IsDetect /\ ~AllValid(call.candles)) => ~call.ret.signal
    /\ ~(IsBuild /\ ~AllValid(call.candles))
    /\ (AnalyzedCandles /\ ~AllValid(Fetched15))
          => call.ret = Raise("InvalidCandleError")


\* the kinds of message of a job's log
Kinds == [i \in 1..Len(sent) |-> sent[i].msg.type]
PerSymbol == {"fetch_error", "no_setup", "plan"}

\* a per-symbol message is about that symbol (an error message names none)
About(msg, symbol) ==
    /\ msg.type \in PerSymbol
    /\ msg.type # "fetch_error" => msg.symbol = symbol

\* C10: in every run of a job the header is attempted first; the finished
\* run has then attempted either the XAU/USD message followed by the BTC/USD
\* message (a fetch failure being that symbol's own message) or one job-error
\* message alone; no job-error message ever follows a per-symbol message;
\* and the attempts do not depend on whether any send was delivered.
C10_MessageSequence ==
    /\ pc # "idle" => Len(sent) >= 1 /\ Kinds[1] = "header" /\ sent[1].msg.job = job
    /\ pc \in {"analyze_x", "analyze_b", "send_x", "except"} => Len(sent) = 1
    /\ pc = "send_b" => Len(sent) = 2 /\ About(sent[2].msg, SYMBOL_XAU)
    /\ \A i, j \in 1..Len(sent) :
          (i < j /\ Kinds[i] \in PerSymbol) => Kinds[j] # "job_error"
    /\ pc = "done" =>
          \/ /\ Len(sent) = 3
             /\ sent[2].msg = format_plan_message(x)
             /\ sent[3].msg = format_plan_message(b)
             /\ About(sent[2].msg, SYMBOL_XAU)
             /\ About(sent[3].msg, SYMBOL_BTC)
             /\ exc = "none"
          \/ /\ Len(sent) = 2
             /\ sent[2].msg = [type |-> "job_error", job |-> job, error |-> exc]
             /\ exc # "none"

\* a finished run whose header and XAU/USD sends both failed, whose XAU/USD
\* message reports a fetch failure, and whose BTC/USD message carries a plan
C10_Witness ==
    /\ pc = "done"
    /\ Len(sent) = 3
    /\ ~sent[1].delivered
    /\ ~sent[2].delivered
    /\ Kinds[2] = "fetch_error"
    /\ Kinds[3] = "plan"

\* a finished run that sent the job-error message alone, BTC/USD's analysis
\* having raised after XAU/USD's succeeded
C10_ErrorWitness ==
    /\ pc = "done"
    /\ Len(sent) = 2
    /\ Kinds[2] = "job_error"
    /\ x # Unbound

=============================================================================
